---- MODULE Spec2Model ----
(***************************************************************************)
(* Model of the ptree launcher (main.py): main() looks up a Node           *)
(* executable, derives the CLI entry file and the compiled artifact from   *)
(* its own resolved location, checks that both exist and delegates to      *)
(* node <entry> <args...>, whose return code becomes its exit status.    *)
(*                                                                         *)
(* Strings are sequences of tokens; a token is a run of characters that    *)
(* the launcher never looks into.  The line feed is a token of its own, so *)
(* the number of lines of a text can be counted.                           *)
(***************************************************************************)
EXTENDS Integers, Sequences, FiniteSets, TLC

MaxArgs == 3

\* Python's None; a value that is present is a one-element sequence <<v>>,
\* a path that is present is its non-empty sequence of tokens
None == <<>>
NL == "\n"
SEP == "/"
\* the backquote character
BQ == "<backquote>"

\* the words a command line is made of (sys.argv[1:])
ArgTokens == {"tree", "--depth", "2"}

RECURSIVE SeqsUpTo(_, _)
SeqsUpTo(S, n) ==
    IF n = 0 THEN {<<>>}
    ELSE LET shorter == SeqsUpTo(S, n - 1)
         IN  shorter \cup {Append(s, x) : s \in {t \in shorter : Len(t) = n - 1}, x \in S}

\* sys.argv: the program name followed by the arguments
ArgVectors == {<<"main.py">> \o a : a \in SeqsUpTo(ArgTokens, MaxArgs)}

\* what shutil.which("node") can return: None or the path of an executable
WhichResults == {None, <<SEP, "usr", SEP, "bin", SEP, "node">>,
                       <<SEP, "opt", SEP, "node", SEP, "bin", SEP, "node">>}

\* the values __file__ can have: installed in a directory, at the file
\* system's root, in a directory whose name holds a line feed, or reached
\* through a symbolic link
LinkFile == <<SEP, "usr", SEP, "bin", SEP, "ptree">>
LinkTarget == <<SEP, "srv", SEP, "pretty_tree", SEP, "main.py">>
LauncherFiles == { <<SEP, "opt", SEP, "pt", SEP, "main.py">>,
                   <<SEP, "main.py">>,
                   <<SEP, "tmp", SEP, "a", NL, "b", SEP, "main.py">>,
                   LinkFile }

\* return codes a child can exit with, and signals that can kill it
ExitCodes == {0, 1, 2, 127, 255}
Signals == {2, 9, 15}
\* errors the operating system can answer a spawn with
SpawnErrors == {"PermissionError", "OSError"}

VARIABLES
    pc,            \* position of the launcher in main.py
    argv,          \* sys.argv
    path_node,     \* environment: what the search path holds for "node"
    file,          \* environment: __file__
    files,         \* environment: the files that exist
    node,          \* main's local `node`
    repo_root,     \* main's local `repo_root`
    cli_entry,     \* main's local `cli_entry`
    compiled_cli,  \* main's local `compiled_cli`
    stdout,        \* texts the launcher wrote to sys.stdout
    stderr,        \* texts the launcher wrote to sys.stderr
    child,         \* the delegated process
    spawns,        \* number of spawn attempts made
    ret,           \* value returned by main(), None before it returns
    status         \* exit status of the launcher process, None while it runs

vars == <<pc, argv, path_node, file, files, node, repo_root, cli_entry,
          compiled_cli, stdout, stderr, child, spawns, ret, status>>

env == <<argv, path_node, file, files>>
locals == <<node, repo_root, cli_entry, compiled_cli>>

----------------------------------------------------------------------------
(* pathlib *)

\* Path.resolve(): follow the symbolic link
Resolve(p) == IF p = LinkFile THEN LinkTarget ELSE p

\* Path.parent: drop the last component; the parent of /name is /
Parent(p) == IF Len(p) <= 2 THEN <<SEP>> ELSE SubSeq(p, 1, Len(p) - 2)

\* Path / name
JoinPath(p, name) == IF p = <<SEP>> THEN <<SEP, name>> ELSE p \o <<SEP, name>>

\* Path.exists()
Exists(p) == p \in files

EntryOf(f) == JoinPath(JoinPath(JoinPath(Parent(Resolve(f)), "ptree-syntax"), "bin"), "ptree.js")
CompiledOf(f) == JoinPath(JoinPath(JoinPath(Parent(Resolve(f)), "ptree-syntax"), "out"), "cli.js")

----------------------------------------------------------------------------
(* texts *)

Contains(s, sub) ==
    \E i \in 1..(Len(s) - Len(sub) + 1) : SubSeq(s, i, i + Len(sub) - 1) = sub

RECURSIVE CountNL(_)
CountNL(s) == IF s = <<>> THEN 0
              ELSE (IF Head(s) = NL THEN 1 ELSE 0) + CountNL(Tail(s))

\* print(text, file=stream): the text and a line feed
WriteLine(stream, text) == Append(stream, text \o <<NL>>)

NodeMissingText == <<"ptree", ": ", "Node.js", " is required but was not found in PATH.">>
\* the entry diagnostic without the path
EntryMissingText_NoPath(p) == <<"ptree", ": ", "CLI entry not found.">>

EntryMissingText(p) == <<"ptree", ": ", "CLI entry not found at ">> \o p \o <<".">>
\* the compiled-artifact diagnostic without the instruction
CompiledMissingText_NoHint == <<"ptree", ": ", "Compiled CLI not found.">>

CompiledMissingText ==
    <<"ptree", ": ", "Compiled CLI not found.", " Run ", BQ, "cd ptree-syntax", " && ",
      "npm install", " && ", "npm run compile", BQ, ".">>
\* what the interpreter writes for an exception nobody caught
TracebackText(e) ==
    <<"Traceback (most recent call last):", NL, "  File main.py, line 30, in main", NL, e>>

NoChild == [state |-> "none", args |-> <<>>, code |-> 0]

----------------------------------------------------------------------------
Init ==
    /\ pc = "line10"
    /\ argv \in ArgVectors
    /\ path_node \in WhichResults
    /\ file \in LauncherFiles
    /\ files \in SUBSET {EntryOf(file), CompiledOf(file)}
    /\ node = None
    /\ repo_root = None
    /\ cli_entry = None
    /\ compiled_cli = None
    /\ stdout = <<>>
    /\ stderr = <<>>
    /\ child = NoChild
    /\ spawns = 0
    /\ ret = None
    /\ status = None

\* line 10: node = shutil.which("node")
LocateRuntime ==
    /\ pc = "line10"
    /\ node' = path_node
    /\ pc' = "line11"
    /\ UNCHANGED <<env, repo_root, cli_entry, compiled_cli, stdout, stderr,
                   child, spawns, ret, status>>

\* lines 11-13 with the wrong return value: return 0
RuntimeMissing_Returns0 ==
    /\ pc = "line11"
    /\ node = None
    /\ stderr' = WriteLine(stderr, NodeMissingText)
    /\ ret' = <<0>>
    /\ pc' = "returned"
    /\ UNCHANGED <<env, locals, stdout, child, spawns, status>>

\* lines 11-13: if not node: print(...); return 1
RuntimeMissing ==
    /\ pc = "line11"
    /\ node = None
    /\ stderr' = WriteLine(stderr, NodeMissingText)
    /\ ret' = <<1>>
    /\ pc' = "returned"
    /\ UNCHANGED <<env, locals, stdout, child, spawns, status>>

\* lines 15-17: the paths, relative to the launcher's resolved directory
ResolveEntrypoints ==
    /\ pc = "line11"
    /\ node # None
    /\ repo_root' = Parent(Resolve(file))
    /\ cli_entry' = JoinPath(JoinPath(JoinPath(repo_root', "ptree-syntax"), "bin"), "ptree.js")
    /\ compiled_cli' = JoinPath(JoinPath(JoinPath(repo_root', "ptree-syntax"), "out"), "cli.js")
    /\ pc' = "line19"
    /\ UNCHANGED <<env, node, stdout, stderr, child, spawns, ret, status>>

\* lines 19-28 with the two checks in the other order
EntryMissing_CompiledFirst ==
    /\ pc = "line19"
    /\ \/ /\ ~Exists(compiled_cli)
          /\ stderr' = WriteLine(stderr, CompiledMissingText)
       \/ /\ Exists(compiled_cli)
          /\ ~Exists(cli_entry)
          /\ stderr' = WriteLine(stderr, EntryMissingText(cli_entry))
    /\ ret' = <<1>>
    /\ pc' = "returned"
    /\ UNCHANGED <<env, locals, stdout, child, spawns, status>>

\* lines 19-21: if not cli_entry.exists(): print(...); return 1
EntryMissing ==
    /\ pc = "line19"
    /\ ~Exists(cli_entry)
    /\ stderr' = WriteLine(stderr, EntryMissingText(cli_entry))
    /\ ret' = <<1>>
    /\ pc' = "returned"
    /\ UNCHANGED <<env, locals, stdout, child, spawns, status>>

\* line 19, the entry file exists: go on to line 23
EntryFound ==
    /\ pc = "line19"
    /\ Exists(cli_entry)
    /\ pc' = "line23"
    /\ UNCHANGED <<env, locals, stdout, stderr, child, spawns, ret, status>>

\* lines 23-28 without file=sys.stderr
CompiledMissing_ToStdout ==
    /\ pc = "line23"
    /\ ~Exists(compiled_cli)
    /\ stdout' = WriteLine(stdout, CompiledMissingText)
    /\ ret' = <<1>>
    /\ pc' = "returned"
    /\ UNCHANGED <<env, locals, stderr, child, spawns, status>>

\* lines 23-28: if not compiled_cli.exists(): print(...); return 1
CompiledMissing ==
    /\ pc = "line23"
    /\ ~Exists(compiled_cli)
    /\ stderr' = WriteLine(stderr, CompiledMissingText)
    /\ ret' = <<1>>
    /\ pc' = "returned"
    /\ UNCHANGED <<env, locals, stdout, child, spawns, status>>

\* line 30 with *sys.argv in place of *sys.argv[1:]
ChildArgs_KeepsProgramName == <<node, cli_entry>> \o argv

\* the argument vector of line 30: [node, str(cli_entry), *sys.argv[1:]]
ChildArgs == <<node, cli_entry>> \o Tail(argv)

\* line 30 without the check of lines 23-28 before it
Spawn_Unchecked ==
    /\ pc = "line23"
    /\ spawns' = spawns + 1
    /\ child' = [state |-> "running", args |-> ChildArgs, code |-> 0]
    /\ pc' = "waiting"
    /\ UNCHANGED <<env, locals, stdout, stderr, ret, status>>

\* line 30, subprocess.call: the child is started
Spawn ==
    /\ pc = "line23"
    /\ Exists(compiled_cli)
    /\ spawns' = spawns + 1
    /\ child' = [state |-> "running", args |-> ChildArgs, code |-> 0]
    /\ pc' = "waiting"
    /\ UNCHANGED <<env, locals, stdout, stderr, ret, status>>

\* line 30, subprocess.call: the operating system refuses the spawn and
\* subprocess.call raises; main() has no handler
SpawnFails ==
    /\ pc = "line23"
    /\ Exists(compiled_cli)
    /\ spawns' = spawns + 1
    /\ \E e \in SpawnErrors : pc' = e
    /\ UNCHANGED <<env, locals, stdout, stderr, child, ret, status>>

\* the child ends, by exiting or by a signal (not a step of the launcher)
ChildTerminates ==
    /\ child.state = "running"
    /\ \/ \E c \in ExitCodes : child' = [child EXCEPT !.state = "exited", !.code = c]
       \/ \E s \in Signals : child' = [child EXCEPT !.state = "signaled", !.code = s]
    /\ UNCHANGED <<pc, env, locals, stdout, stderr, spawns, ret, status>>

\* a return code that only tells success from failure
ReturnCode_Boolean(c) == IF c.state = "exited" /\ c.code = 0 THEN 0 ELSE 1

\* Popen.returncode: the exit code, or minus the signal's number
ReturnCode(c) == IF c.state = "signaled" THEN 0 - c.code ELSE c.code

\* line 30 with a timeout: wait() gives up on a child that still runs
WaitReturns_Timeout ==
    /\ pc = "waiting"
    /\ ret' = <<ReturnCode(child)>>
    /\ pc' = "returned"
    /\ UNCHANGED <<env, locals, stdout, stderr, child, spawns, status>>

\* line 30, subprocess.call without a timeout: wait() returns once the child
\* has ended, and main() returns its return code
WaitReturns ==
    /\ pc = "waiting"
    /\ child.state \in {"exited", "signaled"}
    /\ ret' = <<ReturnCode(child)>>
    /\ pc' = "returned"
    /\ UNCHANGED <<env, locals, stdout, stderr, child, spawns, status>>

\* the exit status the operating system keeps of sys.exit(n): its low 8 bits
ExitStatus(n) == n % 256

\* line 34: sys.exit(main())
SysExit ==
    /\ pc = "returned"
    /\ status' = <<ExitStatus(ret[1])>>
    /\ pc' = "exited"
    /\ UNCHANGED <<env, locals, stdout, stderr, child, spawns, ret>>

\* line 34 with the exception swallowed: the process ends with status 0
UncaughtException_Swallowed ==
    /\ pc \in SpawnErrors
    /\ status' = <<0>>
    /\ pc' = "exited"
    /\ UNCHANGED <<env, locals, stdout, stderr, child, spawns, ret>>

\* line 34, main() raised: the interpreter writes the traceback to the error
\* stream and ends the process with status 1
UncaughtException ==
    /\ pc \in SpawnErrors
    /\ stderr' = WriteLine(stderr, TracebackText(pc))
    /\ status' = <<1>>
    /\ pc' = "exited"
    /\ UNCHANGED <<env, locals, stdout, child, spawns, ret>>

Launcher ==
    \/ LocateRuntime
    \/ RuntimeMissing
    \/ ResolveEntrypoints
    \/ EntryMissing
    \/ EntryFound
    \/ CompiledMissing
    \/ Spawn
    \/ SpawnFails
    \/ WaitReturns
    \/ SysExit
    \/ UncaughtException

Next == Launcher \/ ChildTerminates

Spec == Init /\ [][Next]_vars

\* the launcher is a running process: it takes its next step when it has one
LiveSpec == Spec /\ WF_vars(Launcher)

TypeOK ==
    /\ pc \in {"line10", "line11", "line19", "line23", "waiting", "returned", "exited"}
                \cup SpawnErrors
    /\ spawns \in 0..1
    /\ ret = None \/ (Len(ret) = 1 /\ ret[1] \in Int)
    /\ status = None \/ (Len(status) = 1 /\ status[1] \in 0..255)

----------------------------------------------------------------------------
(* The environment a run was started in, and what a finished run shows *)

NodeFound == path_node # None
EntryExists == EntryOf(file) \in files
CompiledExists == CompiledOf(file) \in files
Terminated == pc = "exited"
ChildEnded == child.state \in {"exited", "signaled"}
SpawnFailed == spawns >= 1 /\ child.state = "none"

NodeMissingLine == NodeMissingText \o <<NL>>
EntryMissingLine == EntryMissingText(EntryOf(file)) \o <<NL>>
CompiledMissingLine == CompiledMissingText \o <<NL>>

\* C1: without a Node executable on the search path, whatever the arguments
\* and whichever of the two files exist, main() returns 1, the process exits
\* with status 1 and a text written to the error stream contains "Node.js".
C1_RuntimeMissing ==
    (path_node = None) =>
        /\ pc \in {"returned", "exited"} => ret = <<1>>
        /\ Terminated =>
              /\ status = <<1>>
              /\ \E i \in DOMAIN stderr : Contains(stderr[i], <<"Node.js">>)

C1_Witness ==
    /\ Terminated /\ path_node = None
    /\ Len(argv) > 1 /\ files = {EntryOf(file), CompiledOf(file)}

\* C2 as stated: whenever the entry file is absent, the launcher exits with
\* status 1 and a text on the error stream contains the computed entry path.
C2_Original ==
    (Terminated /\ ~EntryExists) =>
        /\ status = <<1>>
        /\ \E i \in DOMAIN stderr : Contains(stderr[i], EntryOf(file))

\* C2 amended: whenever the entry file is absent the launcher exits with
\* status 1; if Node was found, a text on the error stream contains the
\* computed entry path; if Node was not found either, the only text written
\* is the Node.js diagnostic.
C2_EntryMissing ==
    (Terminated /\ ~EntryExists) =>
        /\ status = <<1>>
        /\ ret = <<1>>
        /\ NodeFound => \E i \in DOMAIN stderr : Contains(stderr[i], EntryOf(file))
        /\ ~NodeFound => stderr = <<NodeMissingLine>>

C2_Witness ==
    /\ Terminated /\ NodeFound /\ ~EntryExists /\ CompiledExists
    /\ file = LinkFile
    /\ ~Contains(stderr[1], Parent(LinkFile))
    /\ Contains(stderr[1], EntryOf(file))

\* C3: when Node is found, the entry file exists and only the compiled
\* artifact is absent, the launcher exits with status 1, whatever the
\* arguments, and a text on the error stream tells to install and compile.
C3_CompiledMissing ==
    (Terminated /\ NodeFound /\ EntryExists /\ ~CompiledExists) =>
        /\ status = <<1>>
        /\ ret = <<1>>
        /\ \E i \in DOMAIN stderr :
              /\ Contains(stderr[i], <<"npm install">>)
              /\ Contains(stderr[i], <<"npm run compile">>)

C3_Witness ==
    /\ Terminated /\ NodeFound /\ EntryExists /\ ~CompiledExists
    /\ Len(argv) > 1
    /\ stderr = <<CompiledMissingLine>>

\* C4 as stated: when Node is found and both files exist, the launcher's exit
\* status is the child's exit code, and it is 1 only when the child exited
\* with 1 (no precondition has failed here).
C4_Original ==
    (Terminated /\ NodeFound /\ EntryExists /\ CompiledExists) =>
        /\ child.state = "exited" => status = <<child.code>>
        /\ status = <<1>> => (child.state = "exited" /\ child.code = 1)

\* C4 amended: when Node is found and both files exist, the launcher's exit
\* status is the child's exit code for every exit code of the child, and it
\* is 1 only when the child exited with 1 or the spawn itself failed.
C4_ExitCode ==
    (Terminated /\ NodeFound /\ EntryExists /\ CompiledExists) =>
        /\ child.state = "exited" => (ret = <<child.code>> /\ status = <<child.code>>)
        /\ status = <<1>> => \/ child.state = "exited" /\ child.code = 1
                             \/ SpawnFailed

C4_Witness ==
    /\ Terminated /\ NodeFound /\ EntryExists /\ CompiledExists
    /\ child.state = "exited" /\ child.code = 127 /\ status = <<127>>

\* C5: the child's argument vector is the resolved node path, the entry path
\* and then the launcher's own arguments without the program name, each in
\* its place and none more.
C5_ArgsForwarded ==
    (child.state # "none") =>
        /\ Len(child.args) = 2 + (Len(argv) - 1)
        /\ child.args[1] = path_node
        /\ child.args[2] = EntryOf(file)
        /\ \A i \in 2..Len(argv) : child.args[i + 1] = argv[i]

C5_Witness ==
    /\ child.state = "running"
    /\ Tail(argv) = <<"tree", "--depth", "2">>

\* C6: the entry file is checked before the compiled artifact: with Node found
\* and both files absent the only diagnostic is the entry one, naming the entry
\* path; the compiled-artifact diagnostic is written only when the entry file
\* exists.
C6_CheckOrder ==
    /\ (pc \in {"returned", "exited"} /\ NodeFound /\ ~EntryExists /\ ~CompiledExists) =>
          /\ stderr = <<EntryMissingLine>>
          /\ Contains(stderr[1], EntryOf(file))
    /\ \A i \in DOMAIN stderr :
          Contains(stderr[i], <<"Compiled CLI not found.">>) => (NodeFound /\ EntryExists)

C6_Witness ==
    /\ Terminated /\ NodeFound /\ files = {}
    /\ stderr = <<EntryMissingLine>>

\* C7: when the spawn fails, so that there is no child and no exit code of
\* one, the launcher ends with a status other than 0 and has made exactly one
\* spawn attempt.
C7_SpawnFailure ==
    /\ [](SpawnFailed => (spawns = 1 /\ ret = None /\ (Terminated => (status # None /\ status # <<0>>))))
    /\ (SpawnFailed ~> (Terminated /\ status # <<0>> /\ spawns = 1))

C7_Witness ==
    /\ Terminated /\ SpawnFailed /\ status = <<1>> /\ Len(argv) > 1

C9_BlocksUntilChildEnds ==
    /\ []((child.state # "none" /\ (ret # None \/ Terminated)) => ChildEnded)
    /\ (ChildEnded ~> (Terminated /\ ret = <<ReturnCode(child)>>))

C9_Witness ==
    /\ pc = "waiting" /\ child.state = "signaled" /\ ret = None

\* C10: a child is spawned at most once, and only when Node was found and
\* both files exist; a run that fails a precondition spawns nothing; no step
\* changes the set of existing files.
C10_SpawnOnce ==
    /\ [](/\ spawns <= 1
          /\ child.state # "none" => spawns = 1
          /\ spawns >= 1 => (NodeFound /\ EntryExists /\ CompiledExists)
          /\ (~NodeFound \/ ~EntryExists \/ ~CompiledExists) =>
                (spawns = 0 /\ child.state = "none"))
    /\ [][files' = files]_vars

C10_Witness ==
    /\ Terminated /\ spawns = 1 /\ child.state = "exited"
    /\ NodeFound /\ EntryExists /\ CompiledExists
====
